---- MODULE Spec2Model ----
(***************************************************************************)
(* A model of web_scraper.py: the single-URL scrape (web_scraper), the     *)
(* image download (download_image), the batch fan-out over a thread pool   *)
(* (scrape_multiple_urls), URL validation (validate_url), and the front    *)
(* end (the command line of __main__ with process_selector_arg, the menu   *)
(* of main).                                                               *)
(*                                                                         *)
(* Python values are modelled as follows.  A str is a tuple of one-letter  *)
(* strings, so that strip() and re.sub() are computed and not assumed.     *)
(* None is the tuple None below, which is no str.  A dict is a function    *)
(* whose DOMAIN is its key set, so "'error' in d" is "error" \in DOMAIN d. *)
(* An exception is the name of its class.                                  *)
(***************************************************************************)
EXTENDS Integers, Sequences, FiniteSets, TLC

(***************************************************************************)
(* Bounds of the model.                                                    *)
(***************************************************************************)
\* The largest batch handed to scrape_multiple_urls.
MaxUrls == 6
\* The largest number of <a> elements in a served document.
MaxAnchors == 11
\* The largest number of <img> elements in a served document.
MaxImgs == 2
\* The number of chunks iter_content yields for an image body.
NumChunks == 2
\* time.time() is read as a second in 0..MaxTime.
MaxTime == 1
\* The largest number of input() calls in a run of the menu.
MaxReads == 6
\* The largest number of URLs given with --urls.
MaxCliUrls == 2

(***************************************************************************)
(* Program constants.                                                      *)
(***************************************************************************)
\* ThreadPoolExecutor(max_workers=5)
max_workers == 5
\* soup.select(selectors['paragraphs'])[:5]
ParagraphLimit == 5
\* soup.select(selectors['links'])[:10]
LinkLimit == 10

(***************************************************************************)
(* Python values.                                                          *)
(***************************************************************************)
None == <<"None">>

\* bool(v) of a value that is None or a str.
Truthy(v) == v # None /\ v # <<>>

Min(a, b) == IF a <= b THEN a ELSE b

\* s[:n]
Take(s, n) == SubSeq(s, 1, Min(n, Len(s)))

Whitespace == {" ", "\n", "\t"}

RECURSIVE lstrip(_)
lstrip(s) == IF s # <<>> /\ Head(s) \in Whitespace THEN lstrip(Tail(s)) ELSE s

RECURSIVE rstrip(_)
rstrip(s) ==
    IF s # <<>> /\ s[Len(s)] \in Whitespace
    THEN rstrip(SubSeq(s, 1, Len(s) - 1))
    ELSE s

\* str.strip()
strip(s) == rstrip(lstrip(s))

(***************************************************************************)
(* URLs.  A URL is [scheme, host, path], its host (with the port) and its   *)
(* path a str.                                                             *)
(***************************************************************************)
Url(scheme, host, path) == [scheme |-> scheme, host |-> host, path |-> path]

NoUrl == Url("", <<>>, <<>>)

\* The value of an element's src attribute: absent, the empty string, an
\* absolute http URL, an absolute-path reference, a data: URI, or a string
\* urlparse rejects (such as "//[x", "Invalid IPv6 URL").
Src(kind, host, path) == [kind |-> kind, host |-> host, path |-> path]

NoSrc == Src("absent", <<>>, <<>>)

\* A plausible bug: the test of line 127 is missing.
SrcTruthyAlways(src) == TRUE

\* bool(img.get('src'))
SrcTruthy(src) == src.kind \notin {"absent", "empty"}

\* urljoin(base, src): [raises |-> the exception or "", url |-> the joined URL]
urljoin(base, src) ==
    CASE src.kind = "absolute" ->
            [raises |-> "", url |-> Url("http", src.host, src.path)]
      [] src.kind = "relative" ->
            [raises |-> "", url |-> Url(base.scheme, base.host, src.path)]
      [] src.kind = "data" ->
            [raises |-> "", url |-> Url("data", <<>>, src.path)]
      [] src.kind = "malformed" ->
            [raises |-> "ValueError", url |-> NoUrl]
      [] OTHER ->
            [raises |-> "", url |-> base]

\* url.startswith(('http://', 'https://'))
StartsWithHttp(url) == url.scheme \in {"http", "https"}

\* The index of the last "/" of p, or 0.
LastSlash(p) ==
    LET at == {k \in 1..Len(p) : p[k] = "/"}
    IN  IF at = {} THEN 0 ELSE CHOOSE k \in at : \A m \in at : m <= k

\* os.path.basename(urlparse(url).path)
basename(p) == SubSeq(p, LastSlash(p) + 1, Len(p))

\* The characters re.sub(r'[^\w\-_.]', '', filename) keeps, among the
\* characters the model's paths are written with.
FilenameChars == {"a", "b", "l", "p", "x", ".", "-", "_"}

\* re.sub(r'[^\w\-_.]', '', filename)
Sanitize(name) == SelectSeq(name, LAMBDA c : c \in FilenameChars)

\* The filename download_image derives for url at second t.
Filename(url, t) ==
    LET name == Sanitize(basename(url.path))
    IN  IF name = <<>> THEN <<"image_", ToString(t), ".jpg">> ELSE name

\* os.path.join(save_dir, filename)
Filepath(save_dir, name) == <<save_dir>> \o name

\* The body of the image at url, as the chunks iter_content yields.
Content(url) == [k \in 1..NumChunks |-> [url |-> url, k |-> k]]

\* A part of a file no write has filled.
Hole == [url |-> NoUrl, k |-> 0]

\* A plausible bug: the file is opened 'wb' anew for every chunk.
WriteChunkTruncating(file, k, chunk) == <<chunk>>

\* f.write(chunk) at offset k - 1 (in chunks) of a file opened 'wb'.
WriteChunk(file, k, chunk) ==
    [m \in 1..(IF Len(file) > k THEN Len(file) ELSE k) |->
        IF m = k THEN chunk
        ELSE IF m <= Len(file) THEN file[m] ELSE Hole]

(***************************************************************************)
(* Documents.  A parsed document is the sequence of its elements in        *)
(* document order; a selector is a tag name.                               *)
(***************************************************************************)
Elem(tag, text, string, href, src) ==
    [tag |-> tag, text |-> text, string |-> string, href |-> href, src |-> src]

\* soup.select(selector)
select(doc, selector) == SelectSeq(doc, LAMBDA e : e.tag = selector)

\* soup.select_one(selector): <<>> for None, <<e>> for the element e
select_one(doc, selector) == Take(select(doc, selector), 1)

\* soup.find_all('img')
find_all_img(doc) == select(doc, "img")

(***************************************************************************)
(* web_scraper: selectors and extraction.                                  *)
(***************************************************************************)
SelectorKeys == {"title", "paragraphs", "links"}

\* The selectors web_scraper falls back to.
DefaultSelectors == [title |-> "title", paragraphs |-> "p", links |-> "a"]

\* The selectors argument: not given (None), or a dict (possibly empty).
NoSelectors == [given |-> FALSE, map |-> [k \in {} |-> ""]]

GivenSelectors(map) == [given |-> TRUE, map |-> map]

\* "not selectors": None and the empty dict are both falsy.
NotSelectors(sel) == ~sel.given \/ DOMAIN sel.map = {}

\* A plausible bug: a supplied dict is completed from the defaults, key by key.
EffectiveSelectorsMerged(sel) ==
    [k \in SelectorKeys |->
        IF sel.given /\ k \in DOMAIN sel.map THEN sel.map[k] ELSE DefaultSelectors[k]]

\* The value of the local selectors after "if not selectors: selectors = {...}".
EffectiveSelectors(sel) ==
    IF NotSelectors(sel) THEN DefaultSelectors ELSE sel.map

\* What the dict display of data raises: selectors[key] of a missing key.
ExtractRaises(sel) ==
    IF SelectorKeys \subseteq DOMAIN sel THEN "" ELSE "KeyError"

\* 'Baslik bulunamadi', the placeholder title (no str of a document).
TitleNotFound == <<"Baslik bulunamadi">>

\* soup.select_one(selectors['title']).string if ... else 'Baslik bulunamadi'
ExtractTitle(doc, sel) ==
    IF select_one(doc, sel.title) # <<>>
    THEN select_one(doc, sel.title)[1].string
    ELSE TitleNotFound

\* [p.text.strip() for p in soup.select(selectors['paragraphs'])[:5]]
ExtractParagraphs(doc, sel) ==
    LET ps == Take(select(doc, sel.paragraphs), ParagraphLimit)
    IN  [k \in 1..Len(ps) |-> strip(ps[k].text)]

\* soup.select(selectors['links'])[:10]
LinkCandidates(doc, sel) == Take(select(doc, sel.links), LinkLimit)

\* [{'text': ..., 'href': ...} for a in soup.select(...)[:10] if a.get('href')]
ExtractLinks(doc, sel) ==
    LET kept == SelectSeq(LinkCandidates(doc, sel), LAMBDA a : Truthy(a.href))
    IN  [k \in 1..Len(kept) |-> [text |-> strip(kept[k].text), href |-> kept[k].href]]

\* The steps of the call that precede the dict display of data.
BeforeData == {"sleep", "get", "raise_for_status", "parse", "selectors"}

\* A plausible bug: the timestamp is the last value of the display.
DataKeysTimestampLast == <<"url", "title", "paragraphs", "links", "timestamp">>

\* The keys of the dict display of data, in the order it is written in: a
\* dict display evaluates its values in that order.
DataKeys == <<"url", "timestamp", "title", "paragraphs", "links">>

\* What of the call has happened when datetime.now() is evaluated: the steps
\* before the display, and the values of the display before 'timestamp'.
TimestampAfter ==
    BeforeData \cup
        {DataKeys[k] : k \in {m \in 1..Len(DataKeys) :
                                \E t \in (m + 1)..Len(DataKeys) : DataKeys[t] = "timestamp"}}

\* The dict data of lines 108-115, for selectors that hold every key.
Data(url, doc, sel) ==
    [url        |-> url,
     timestamp  |-> TimestampAfter,
     title      |-> ExtractTitle(doc, sel),
     paragraphs |-> ExtractParagraphs(doc, sel),
     links      |-> ExtractLinks(doc, sel)]

\* data['images'] = images
WithImages(data, images) ==
    [k \in DOMAIN data \cup {"images"} |-> IF k = "images" THEN images ELSE data[k]]

(***************************************************************************)
(* Exceptions and the two except clauses of web_scraper.                   *)
(***************************************************************************)
\* The subclasses of requests.exceptions.RequestException the model raises.
RequestExceptions == {"ConnectionError", "HTTPError"}

\* The subclasses of Exception the model raises.
Exceptions == RequestExceptions \cup {"KeyError", "ValueError", "OSError"}

HttpStatuses == {200, 304, 404, 503}

\* A plausible bug: the status of the response is never checked.
raise_for_status_missing(status) == ""

\* response.raise_for_status(): HTTPError for a 4xx or 5xx status, else nothing.
raise_for_status(status) ==
    IF status >= 400 /\ status < 600 THEN "HTTPError" ELSE ""

ConnectionFailure(exc) == [error |-> <<"Baglanti hatasi", exc>>]

UnexpectedFailure(exc) == [error |-> <<"Beklenmeyen hata", exc>>]

\* The value of a future, or of a call, that has not returned.
NoResult == [pending |-> TRUE]

\* A plausible bug: the second except clause is missing.
web_scraper_except_first_only(exc) ==
    IF exc \in RequestExceptions
    THEN [pc |-> "returned", ret |-> ConnectionFailure(exc)]
    ELSE [pc |-> "raised", ret |-> NoResult]

\* except RequestException ... except Exception ...: where the call goes on
\* exception exc, and what it returns.
web_scraper_except(exc) ==
    IF exc \in RequestExceptions
    THEN [pc |-> "returned", ret |-> ConnectionFailure(exc)]
    ELSE IF exc \in Exceptions
    THEN [pc |-> "returned", ret |-> UnexpectedFailure(exc)]
    ELSE [pc |-> "raised", ret |-> NoResult]

IsFailure(r) == "error" \in DOMAIN r

IsSuccess(r) ==
    /\ {"url", "timestamp", "title", "paragraphs", "links"} \subseteq DOMAIN r
    /\ "error" \notin DOMAIN r

(***************************************************************************)
(* validate_url.  url_pattern is matched part by part, as the regular      *)
(* expression is written: a part maps the set P of positions of s that a   *)
(* match may have reached (position p: the first p characters matched) to  *)
(* the set it may reach after the part.  re.IGNORECASE: [A-Z] is any       *)
(* letter, a literal is compared in lower case.                            *)
(***************************************************************************)
UpperCase ==
    <<"A", "B", "C", "D", "E", "F", "G", "H", "I", "J", "K", "L", "M",
      "N", "O", "P", "Q", "R", "S", "T", "U", "V", "W", "X", "Y", "Z">>

LowerCase ==
    <<"a", "b", "c", "d", "e", "f", "g", "h", "i", "j", "k", "l", "m",
      "n", "o", "p", "q", "r", "s", "t", "u", "v", "w", "x", "y", "z">>

Letters ==
    {UpperCase[k] : k \in 1..Len(UpperCase)} \cup {LowerCase[k] : k \in 1..Len(LowerCase)}

Digits == {"0", "1", "2", "3", "4", "5", "6", "7", "8", "9"}

\* \S, among the characters the strings of the model are written with.
NonSpace ==
    Letters \cup Digits \cup {"-", ".", "_", ":", "/", "?", "#", "=", ",", "@", "[", "+"}

\* c.lower()
lower(c) ==
    IF \E k \in 1..Len(UpperCase) : UpperCase[k] = c
    THEN LowerCase[CHOOSE k \in 1..Len(UpperCase) : UpperCase[k] = c]
    ELSE c

\* One character of the class C.
Class(s, P, C) == {p + 1 : p \in {q \in P : q < Len(s) /\ s[q + 1] \in C}}

\* The literal w (written in lower case).
Literal(s, P, w) ==
    {p + Len(w) : p \in {q \in P : /\ q + Len(w) <= Len(s)
                                   /\ \A k \in 1..Len(w) : lower(s[q + k]) = w[k]}}

\* C{lo,hi}
RECURSIVE Repeat(_, _, _, _, _)
Repeat(s, P, C, lo, hi) ==
    IF P = {} THEN {}
    ELSE (IF lo <= 0 THEN P ELSE {})
            \cup (IF hi > 0 THEN Repeat(s, Class(s, P, C), C, lo - 1, hi - 1) ELSE {})

\* ^https?://
SchemePart(s, P) ==
    LET http == Literal(s, P, <<"h", "t", "t", "p">>)
    IN  Literal(s, http \cup Literal(s, http, <<"s">>), <<":", "/", "/">>)

\* [A-Z0-9](?:[A-Z0-9-]{0,61}[A-Z0-9])?
LabelPart(s, P) ==
    LET first == Class(s, P, Letters \cup Digits)
    IN  first \cup Class(s, Repeat(s, first, Letters \cup Digits \cup {"-"}, 0, 61),
                         Letters \cup Digits)

\* (?:[A-Z0-9](?:[A-Z0-9-]{0,61}[A-Z0-9])?\.)+
RECURSIVE LabelsPart(_, _)
LabelsPart(s, P) ==
    LET once == Class(s, LabelPart(s, P), {"."})
    IN  IF once = {} THEN {} ELSE once \cup LabelsPart(s, once)

\* (?:...)+[A-Z]{2,6}\.?
DomainPart(s, P) ==
    LET tld == Repeat(s, LabelsPart(s, P), Letters, 2, 6)
    IN  tld \cup Class(s, tld, {"."})

\* \d{1,3}
OctetPart(s, P) == Repeat(s, P, Digits, 1, 3)

\* \d{1,3}\.\d{1,3}\.\d{1,3}\.\d{1,3}
IpPart(s, P) ==
    OctetPart(s, Class(s, OctetPart(s, Class(s, OctetPart(s, Class(s,
        OctetPart(s, P), {"."})), {"."})), {"."}))

\* domain | localhost | ip
HostPart(s, P) ==
    DomainPart(s, P)
        \cup Literal(s, P, <<"l", "o", "c", "a", "l", "h", "o", "s", "t">>)
        \cup IpPart(s, P)

\* (?::\d+)?
PortPart(s, P) == P \cup Repeat(s, Class(s, P, {":"}), Digits, 1, Len(s))

\* (?:/?|[/?]\S+)
PathPart(s, P) ==
    P \cup Class(s, P, {"/"}) \cup Repeat(s, Class(s, P, {"/", "?"}), NonSpace, 1, Len(s))

\* $: the end of s, or just before a newline that ends s.
AtEnd(s, P) ==
    \E p \in P : p = Len(s) \/ (p = Len(s) - 1 /\ s[Len(s)] = "\n")

\* bool(url_pattern.match(s)) for a str s
url_pattern_match(s) ==
    AtEnd(s, PathPart(s, PortPart(s, HostPart(s, SchemePart(s, {0})))))

\* The index of the first character of s that is in C, or 0.
FirstOf(s, C) ==
    LET at == {k \in 1..Len(s) : s[k] \in C}
    IN  IF at = {} THEN 0 ELSE CHOOSE k \in at : \A m \in at : k <= m

\* Where the scheme of s ends (the index of its ":"), or 0 for no scheme.
SchemeEnd(s) ==
    LET i == FirstOf(s, {":"})
    IN  IF /\ i > 1
           /\ s[1] \in Letters
           /\ \A k \in 1..(i - 1) : s[k] \in Letters \cup Digits \cup {"+", "-", "."}
        THEN i ELSE 0

\* urlparse(s).scheme
urlparse_scheme(s) == [k \in 1..(SchemeEnd(s) - 1) |-> lower(s[k])]

\* What follows "scheme://" in s, or <<>> when s has no "//" there.
AfterSlashes(s) ==
    LET rest == SubSeq(s, SchemeEnd(s) + 1, Len(s))
    IN  IF Len(rest) >= 2 /\ rest[1] = "/" /\ rest[2] = "/"
        THEN SubSeq(rest, 3, Len(rest)) ELSE <<>>

\* Where the netloc ends in AfterSlashes(s).
NetlocLen(s) ==
    LET i == FirstOf(AfterSlashes(s), {"/", "?", "#"})
    IN  IF i = 0 THEN Len(AfterSlashes(s)) ELSE i - 1

\* urlparse(s).netloc
urlparse_netloc(s) == SubSeq(AfterSlashes(s), 1, NetlocLen(s))

\* What of s follows the netloc: the path, with the query and the fragment.
urlparse_path(s) == SubSeq(AfterSlashes(s), NetlocLen(s) + 1, Len(AfterSlashes(s)))

\* What url_pattern.match(url) raises ("" for nothing): TypeError unless url
\* is a str.
match_raises(url) == IF url = None THEN "TypeError" ELSE ""

\* validate_url(url): "except Exception: return False" for what is raised.
validate_url(url) ==
    IF match_raises(url) # "" THEN FALSE
    ELSE IF url_pattern_match(url)
    THEN urlparse_scheme(url) # <<>> /\ urlparse_netloc(url) # <<>>
    ELSE FALSE

(***************************************************************************)
(* process_selector_arg.                                                   *)
(***************************************************************************)
\* s.split(c)
RECURSIVE split(_, _)
split(s, c) ==
    IF FirstOf(s, {c}) = 0 THEN <<s>>
    ELSE <<SubSeq(s, 1, FirstOf(s, {c}) - 1)>>
            \o split(SubSeq(s, FirstOf(s, {c}) + 1, Len(s)), c)

\* [item.split('=') for item in selector_str.split(',')]
SelectorItems(selector_str) ==
    [k \in 1..Len(split(selector_str, ",")) |-> split(split(selector_str, ",")[k], "=")]

\* The dict the loop builds from items of two parts each: a later item
\* replaces an earlier one of the same key.
SelectorDict(items) ==
    [key \in {strip(items[k][1]) : k \in 1..Len(items)} |->
        strip(items[CHOOSE k \in 1..Len(items) :
                        /\ strip(items[k][1]) = key
                        /\ \A m \in (k + 1)..Len(items) : strip(items[m][1]) # key][2])]

\* A plausible bug: an item that is no key=value pair is skipped.
process_selector_arg_lenient(selector_str) ==
    IF ~Truthy(selector_str) THEN NoSelectors
    ELSE GivenSelectors(SelectorDict(
            SelectSeq(SelectorItems(selector_str), LAMBDA parts : Len(parts) = 2)))

\* process_selector_arg(selector_str): None (NoSelectors) for a falsy
\* argument and, by the bare except, for the ValueError that unpacking an
\* item of other than two parts raises; else the dict.
process_selector_arg(selector_str) ==
    IF ~Truthy(selector_str) THEN NoSelectors
    ELSE IF \E k \in 1..Len(SelectorItems(selector_str)) :
                Len(SelectorItems(selector_str)[k]) # 2
    THEN NoSelectors
    ELSE GivenSelectors(SelectorDict(SelectorItems(selector_str)))

(***************************************************************************)
(* The state.                                                              *)
(***************************************************************************)
VARIABLES
    \* The front end (__main__ and main): the parsed command line, where the
    \* front end is at, the menu choice, the page URLs as typed (the URL of
    \* choices 1, 3, 4, the list of choice 2, the URLs the command line
    \* hands over), what process_selector_arg returned, the exit code of
    \* the process (-1 while it runs), the argument of the last save_data
    \* call, and the number of input() calls so far.
    args,
    at,
    choice,
    given,
    cli_selectors,
    exit_code,
    saved,
    reads,
    \* A call of validate_url: its argument and what it returned.
    checked,
    valid,
    \* The call: "single" for web_scraper(url, ...) called directly (the
    \* menu, the single-URL command line), "batch" for scrape_multiple_urls,
    \* "none" before any call.
    mode,
    \* The URLs of the call; task i scrapes urls[i].
    urls,
    \* The arguments selectors and download_images, the same for every URL.
    selectors,
    download_images,
    \* The web: web[i].answers are the answers the server of urls[i] may give
    \* to the page GET, web[i].doc is the document it serves.
    web,
    \* ThreadPoolExecutor: the number of futures submitted, the work queue,
    \* the number of worker threads started.
    futures,
    queue,
    threads,
    \* Each task's place in web_scraper, and the value it returned.
    pc,
    ret,
    \* Each task's locals: the answer to its page GET, soup, selectors (and
    \* whether the defaults were assigned), data, the index of the img the
    \* loop is at, images, and the download in progress.
    answer,
    soup,
    effsel,
    defaulted,
    data,
    imgIdx,
    images,
    dl,
    \* scrape_multiple_urls: the futures whose result() has been taken,
    \* results, and whether the function has returned.
    consumed,
    results,
    returned,
    \* The pictures directory: whether it exists and its files by name.
    dirExists,
    files,
    \* History: the log of the files opened for writing, whether a file
    \* was ever opened while another task had one open, and the log of the
    \* download_image calls that returned a filepath.
    opened,
    overlapped,
    downloaded

front == <<args, at, choice, given, cli_selectors, exit_code, saved, reads>>

validation == <<checked, valid>>

inputs == <<mode, urls, selectors, download_images, web>>

pool == <<futures, queue, threads>>

locals == <<answer, soup, effsel, defaulted, data, imgIdx, images, dl>>

batch == <<consumed, results, returned>>

disk == <<dirExists, files, opened, overlapped, downloaded>>

vars == <<front, validation, inputs, pool, pc, ret, locals, batch, disk>>

Tasks == 1..Len(urls)

\* The answer of a server: a transport-level error, or a response status.
Answer(status) == [err |-> FALSE, status |-> status]

Unreachable == [err |-> TRUE, status |-> 0]

NoAnswer == [err |-> FALSE, status |-> 0]

NoDownload == [url |-> NoUrl, name |-> <<>>, k |-> 0]

NoData == [unset |-> TRUE]

\* argparse's namespace: url is None or a str, urls None or a list of str,
\* picture a bool, selector None or a str.
Args(url, urlList, picture, selector) ==
    [url |-> url, urls |-> urlList, picture |-> picture, selector |-> selector]

NoArgs == Args(None, None, FALSE, None)

\* save_data has not been called; save_data(data, ...) was called with a
\* list of records, or with one record (kept as a list of one).
NotSaved == [called |-> FALSE, list |-> FALSE, records |-> <<>>]

Saved(isList, records) == [called |-> TRUE, list |-> isList, records |-> records]

\* validate_url has not returned; it has returned value v.
NotReturned == [returned |-> FALSE, value |-> FALSE]

Returned(v) == [returned |-> TRUE, value |-> v]

\* web_scraper or scrape_multiple_urls is called as a library function: no
\* front end runs.
NoFrontEnd ==
    /\ args = NoArgs
    /\ at = "called"
    /\ choice = ""
    /\ given = <<>>
    /\ cli_selectors = NoSelectors
    /\ exit_code = -1
    /\ saved = NotSaved
    /\ reads = 0

\* The argument of a validate_url call, by its parts: a str made of a
\* scheme (with "://" unless it is empty), a host, a port, and what follows
\* (path, query, fragment); or a value that is no str.
Parts(scheme, host, port, tail) ==
    [str |-> TRUE, scheme |-> scheme, host |-> host, port |-> port, tail |-> tail]

NoStr == [str |-> FALSE, scheme |-> <<>>, host |-> <<>>, port |-> <<>>, tail |-> <<>>]

\* The value the parts make.
UrlText(c) ==
    IF ~c.str THEN None
    ELSE (IF c.scheme = <<>> THEN <<>> ELSE c.scheme \o <<":", "/", "/">>)
            \o c.host \o c.port \o c.tail

\* No call of validate_url is under way.
NoValidation ==
    /\ checked = NoStr
    /\ valid = NotReturned

\* No call of web_scraper or scrape_multiple_urls has been made.
NoCall ==
    /\ mode = "none"
    /\ urls = <<>>
    /\ selectors = NoSelectors
    /\ download_images = FALSE
    /\ web = <<>>
    /\ futures = 0
    /\ queue = <<>>
    /\ threads = 0
    /\ pc = <<>>
    /\ ret = <<>>
    /\ answer = <<>>
    /\ soup = <<>>
    /\ effsel = <<>>
    /\ defaulted = <<>>
    /\ data = <<>>
    /\ imgIdx = <<>>
    /\ images = <<>>
    /\ dl = <<>>
    /\ consumed = {}
    /\ results = <<>>
    /\ returned = FALSE
    /\ dirExists = FALSE
    /\ files = [f \in {} |-> <<>>]
    /\ opened = {}
    /\ overlapped = FALSE
    /\ downloaded = {}

\* What requests.get and raise_for_status raise on answer a ("" for nothing).
GetRaises(a) == IF a.err THEN "ConnectionError" ELSE raise_for_status(a.status)

\* The tasks a worker thread is executing.
Running ==
    {i \in Tasks : pc[i] \in {"sleep", "get", "images", "img_get", "img_write"}}

\* The tasks with an HTTP request in flight: the page GET, or an image GET
\* whose body is still being streamed.
Fetching == {i \in Tasks : pc[i] \in {"get", "img_get", "img_write"}}

(***************************************************************************)
(* The documents and requests the model is run on.                         *)
(***************************************************************************)
TitleElem == Elem("title", <<"T">>, <<"T">>, None, NoSrc)

\* <title></title>: its .string is None.
EmptyTitleElem == Elem("title", <<>>, None, None, NoSrc)

H1Elem == Elem("h1", <<"H">>, <<"H">>, None, NoSrc)

PElem(k) == Elem("p", <<" ", ToString(k), "\n">>, <<" ", ToString(k), "\n">>, None, NoSrc)

LiElem == Elem("li", <<"\t", "b">>, <<"\t", "b">>, None, NoSrc)

\* The k-th <a> of a document, with or without an href.
Anchor(k, withHref) ==
    Elem("a", <<" ", "x", " ">>, <<" ", "x", " ">>,
         IF withHref THEN <<"/", ToString(k)>> ELSE None, NoSrc)

\* <a href="">
EmptyHrefAnchor == Elem("a", <<"x">>, <<"x">>, <<>>, NoSrc)

Img(src) == Elem("img", <<>>, None, None, src)

PlainDoc == <<TitleElem, PElem(1), Anchor(1, TRUE)>>

SmallDocs ==
    { <<TitleElem, H1Elem, PElem(1), LiElem, Anchor(1, TRUE)>>,
      <<H1Elem, PElem(1), Anchor(1, FALSE), EmptyHrefAnchor, Anchor(3, TRUE)>>,
      <<EmptyTitleElem>> \o [k \in 1..(ParagraphLimit + 1) |-> PElem(k)] }

\* A title, then up to MaxAnchors <a> elements, each with or without href.
AnchorDocs ==
    UNION { { <<TitleElem>> \o [k \in 1..m |-> Anchor(k, h[k])] : h \in [1..m -> BOOLEAN] }
            : m \in 0..MaxAnchors }

\* Two URLs whose filenames collide after re.sub(), one of its own, and one
\* with no basename.
ImageA == Src("absolute", <<"a">>, <<"/", "l", ".", "p">>)

ImageB == Src("absolute", <<"b">>, <<"/", "b", "/", "l", " ", ".", "p">>)

ImageX == Src("absolute", <<"a">>, <<"/", "x", ".", "p">>)

ImageNoName == Src("absolute", <<"a">>, <<"/">>)

ImgSrcs ==
    { NoSrc, Src("empty", <<>>, <<>>), Src("malformed", <<>>, <<"/", "/", "[">>),
      Src("data", <<>>, <<"x">>), Src("relative", <<>>, <<"/", "x", ".", "p">>),
      ImageA, ImageB }

\* A title, then 1 to MaxImgs <img> elements.
ImgDocs ==
    UNION { { <<TitleElem>> \o [k \in 1..m |-> Img(s[k])] : s \in [1..m -> ImgSrcs] }
            : m \in 1..MaxImgs }

ConcurrentSrcs == {ImageA, ImageB, ImageX, ImageNoName}

\* The page URL of task i.
PageUrl(i) == Url("https", <<ToString(i)>>, <<"/">>)

AllAnswers == {Unreachable} \cup {Answer(s) : s \in HttpStatuses}

\* Selectors a caller supplies: a dict over any subset of the keys (the menu
\* builds one from the non-blank answers, so also the empty dict), or the
\* defaults spelled out.
CustomSelectors == [title |-> "h1", paragraphs |-> "li", links |-> "a"]

SelectorArgs ==
    {NoSelectors, GivenSelectors(DefaultSelectors)}
        \cup {GivenSelectors([k \in S |-> CustomSelectors[k]]) : S \in SUBSET SelectorKeys}

Scenario(m, n, sel, dli, w) ==
    [mode |-> m, n |-> n, selectors |-> sel, download_images |-> dli, web |-> w]

Server(answers, doc) == [answers |-> answers, doc |-> doc]

\* A batch of 1 to MaxUrls URLs, each served or answered 404.
BatchScenarios ==
    { Scenario("batch", n, NoSelectors, FALSE,
               [i \in 1..n |-> Server({Answer(200), Answer(404)}, PlainDoc)])
      : n \in 1..MaxUrls }

\* A batch of 1 to MaxUrls URLs, all served but the first, which is served
\* or answered 404.
ServedScenarios ==
    { Scenario("batch", n, NoSelectors, FALSE,
               [i \in 1..n |->
                   Server(IF i = 1 THEN {Answer(200), Answer(404)} ELSE {Answer(200)},
                          PlainDoc)])
      : n \in 1..MaxUrls }

\* A batch of two pages, one image each, downloaded concurrently.
ConcurrentScenarios ==
    { Scenario("batch", 2, NoSelectors, TRUE,
               [i \in 1..2 |-> Server({Answer(200)}, <<Img(s[i])>>)])
      : s \in [1..2 -> ConcurrentSrcs] }

\* One call with any selectors argument and any answer.
SelectorScenarios ==
    { Scenario("single", 1, x[1], x[2], <<Server(AllAnswers, x[3])>>)
      : x \in SelectorArgs \X BOOLEAN \X SmallDocs }

\* One call on a page of links.
LinkScenarios ==
    { Scenario("single", 1, NoSelectors, FALSE, <<Server({Answer(200)}, doc)>>)
      : doc \in AnchorDocs }

\* One call on a page of images, downloaded.
ImageScenarios ==
    { Scenario("single", 1, NoSelectors, TRUE, <<Server({Answer(200)}, doc)>>)
      : doc \in ImgDocs }

Scenarios ==
    BatchScenarios \cup ConcurrentScenarios \cup SelectorScenarios
        \cup LinkScenarios \cup ImageScenarios

\* The state when a call of one of the scenarios S is about to be made.
Begin(S) ==
    \E s \in S :
        /\ NoFrontEnd
        /\ NoValidation
        /\ mode = s.mode
        /\ urls = [i \in 1..s.n |-> PageUrl(i)]
        /\ selectors = s.selectors
        /\ download_images = s.download_images
        /\ web = s.web
        /\ futures = 0
        /\ queue = <<>>
        /\ threads = 0
        /\ pc = [i \in 1..s.n |-> "new"]
        /\ ret = [i \in 1..s.n |-> NoResult]
        /\ answer = [i \in 1..s.n |-> NoAnswer]
        /\ soup = [i \in 1..s.n |-> <<>>]
        /\ effsel = [i \in 1..s.n |-> s.selectors.map]
        /\ defaulted = [i \in 1..s.n |-> FALSE]
        /\ data = [i \in 1..s.n |-> NoData]
        /\ imgIdx = [i \in 1..s.n |-> 0]
        /\ images = [i \in 1..s.n |-> <<>>]
        /\ dl = [i \in 1..s.n |-> NoDownload]
        /\ consumed = {}
        /\ results = <<>>
        /\ returned = FALSE
        /\ dirExists = FALSE
        /\ files = [f \in {} |-> <<>>]
        /\ opened = {}
        /\ overlapped = FALSE
        /\ downloaded = {}

Init == Begin(Scenarios)

\* A call of scrape_multiple_urls is about to be made.
BatchInit == Begin(ServedScenarios \cup ConcurrentScenarios)

(***************************************************************************)
(* The callers.                                                            *)
(***************************************************************************)
\* data = web_scraper(url, ...): the caller's own thread runs the call.
Call ==
    /\ mode = "single"
    /\ pc[1] = "new"
    /\ pc' = [pc EXCEPT ![1] = "sleep"]
    /\ UNCHANGED <<front, validation, inputs, pool, ret, locals, batch, disk>>

\* A plausible bug: the pool grows with the batch.
MaySpawnUnbounded == TRUE

\* ThreadPoolExecutor starts a worker thread on submit while it has fewer
\* than max_workers.
MaySpawn == threads < max_workers

\* executor.submit(web_scraper, url, ...) for the next url of the list
\* comprehension.
Submit ==
    /\ mode = "batch"
    /\ futures < Len(urls)
    /\ futures' = futures + 1
    /\ queue' = Append(queue, futures + 1)
    /\ threads' = IF MaySpawn THEN threads + 1 ELSE threads
    /\ pc' = [pc EXCEPT ![futures + 1] = "queued"]
    /\ UNCHANGED <<front, validation, inputs, ret, locals, batch, disk>>

\* An idle worker thread takes the first work item of the queue and calls
\* web_scraper.
Start(i) ==
    /\ mode = "batch"
    /\ queue # <<>>
    /\ i = Head(queue)
    /\ Cardinality(Running) < threads
    /\ queue' = Tail(queue)
    /\ pc' = [pc EXCEPT ![i] = "sleep"]
    /\ UNCHANGED <<front, validation, inputs, futures, threads, ret, locals, batch, disk>>

\* A plausible bug: the results are taken as the futures complete.
NextFuturesAsCompleted == {i \in Tasks \ consumed : pc[i] \in {"returned", "raised"}}

\* "for future in futures": the future the loop is at, if any.
NextFutures == {i \in Tasks \ consumed : \A j \in Tasks \ consumed : i <= j}

\* A plausible bug: every result is appended.
KeepsResultAlways(r) == TRUE

\* if 'error' not in result
KeepsResult(r) == "error" \notin DOMAIN r

\* result = future.result(), then the append, or the except clause when the
\* call raised.
Await(i) ==
    /\ mode = "batch"
    /\ futures = Len(urls)
    /\ i \in NextFutures
    /\ pc[i] \in {"returned", "raised"}
    /\ consumed' = consumed \cup {i}
    /\ results' = IF pc[i] = "returned" /\ KeepsResult(ret[i])
                  THEN Append(results, ret[i])
                  ELSE results
    /\ UNCHANGED <<front, validation, inputs, pool, pc, ret, locals, returned, disk>>

\* A plausible bug: "return results" is indented into the loop.
LoopOverAfterFirst == consumed # {}

\* "for future in futures" has gone through every future.
LoopOver == consumed = Tasks

\* The with block ends (every future is done) and results is returned.
Return ==
    /\ mode = "batch"
    /\ futures = Len(urls)
    /\ LoopOver
    /\ ~returned
    /\ returned' = TRUE
    /\ UNCHANGED <<front, validation, inputs, pool, pc, ret, locals, consumed, results, disk>>

(***************************************************************************)
(* web_scraper, task i.                                                    *)
(***************************************************************************)
\* Exception exc reaches the except clauses of web_scraper.
Except(i, exc) ==
    /\ pc' = [pc EXCEPT ![i] = web_scraper_except(exc).pc]
    /\ ret' = [ret EXCEPT ![i] = web_scraper_except(exc).ret]

\* return data
ReturnData(i, d) ==
    /\ pc' = [pc EXCEPT ![i] = "returned"]
    /\ ret' = [ret EXCEPT ![i] = d]

\* A plausible bug: a rate limiter shared by the calls lets one page GET be
\* in flight at a time.
ElapsedThrottled(i) == \A j \in Tasks \ {i} : pc[j] # "get"

\* time.sleep(1) of call i is over: the sleep is the call's own, it takes
\* no lock and reads no state shared with other calls.
Elapsed(i) == TRUE

\* time.sleep(1) ends and the page GET is sent.
Sleep(i) ==
    /\ pc[i] = "sleep"
    /\ Elapsed(i)
    /\ pc' = [pc EXCEPT ![i] = "get"]
    /\ UNCHANGED <<front, validation, inputs, pool, ret, locals, batch, disk>>

\* What the page GET and raise_for_status raise on answer a, else what the
\* dict display of data raises under the effective selectors ("" for nothing).
PageRaises(a, sel) == IF GetRaises(a) # "" THEN GetRaises(a) ELSE ExtractRaises(sel)

\* Lines 91-124, from the end of the page GET to the next blocking call or
\* the return: requests.get(url, headers=...) ends, then
\* response.raise_for_status(), the parse, the default selectors, the dict
\* data and, with download_images, os.makedirs and images = [].
Get(i) ==
    /\ pc[i] = "get"
    /\ \E a \in web[i].answers, made \in BOOLEAN :
          LET sel == EffectiveSelectors(selectors)
              fetched == GetRaises(a) = ""
              extracted == PageRaises(a, sel) = ""
          IN  /\ answer' = [answer EXCEPT ![i] = a]
              /\ soup' = [soup EXCEPT ![i] = IF fetched THEN web[i].doc ELSE soup[i]]
              /\ effsel' = [effsel EXCEPT ![i] = IF fetched THEN sel ELSE effsel[i]]
              /\ defaulted' = [defaulted EXCEPT ![i] = fetched /\ NotSelectors(selectors)]
              /\ data' = [data EXCEPT ![i] =
                            IF extracted THEN Data(urls[i], web[i].doc, sel) ELSE data[i]]
              /\ IF ~extracted
                 THEN /\ Except(i, PageRaises(a, sel))
                      /\ UNCHANGED <<imgIdx, dirExists>>
                 ELSE IF ~download_images
                 THEN /\ ReturnData(i, Data(urls[i], web[i].doc, sel))
                      /\ UNCHANGED <<imgIdx, dirExists>>
                 ELSE IF ~made
                 THEN /\ Except(i, "OSError")
                      /\ UNCHANGED <<imgIdx, dirExists>>
                 ELSE /\ dirExists' = TRUE
                      /\ imgIdx' = [imgIdx EXCEPT ![i] = 1]
                      /\ pc' = [pc EXCEPT ![i] = "images"]
                      /\ ret' = ret
    /\ UNCHANGED <<front, validation, inputs, pool, images, dl, batch, files, opened, overlapped,
                   downloaded>>

\* The loop "for img in soup.find_all('img')" moves to the next img.
NextImg(i) ==
    /\ imgIdx' = [imgIdx EXCEPT ![i] = imgIdx[i] + 1]
    /\ dl' = [dl EXCEPT ![i] = NoDownload]
    /\ pc' = [pc EXCEPT ![i] = "images"]
    /\ ret' = ret

\* Lines 125-140 up to the next image GET: the loop is over and data is
\* returned with its images, or img.get('src') is falsy, or urljoin raises,
\* or download_image returns None for a URL that is not http(s), or it
\* sends the image GET.
Images(i) ==
    /\ pc[i] = "images"
    /\ LET imgs == find_all_img(soup[i])
       IN  IF imgIdx[i] > Len(imgs)
           THEN /\ data' = [data EXCEPT ![i] = WithImages(data[i], images[i])]
                /\ ReturnData(i, WithImages(data[i], images[i]))
                /\ UNCHANGED <<imgIdx, dl>>
           ELSE LET src == imgs[imgIdx[i]].src
                    joined == urljoin(urls[i], src)
                IN  /\ data' = data
                    /\ IF ~SrcTruthy(src)
                       THEN NextImg(i)
                       ELSE IF joined.raises # ""
                       THEN /\ Except(i, joined.raises)
                            /\ UNCHANGED <<imgIdx, dl>>
                       ELSE IF ~StartsWithHttp(joined.url)
                       THEN NextImg(i)
                       ELSE /\ dl' = [dl EXCEPT ![i] =
                                        [url |-> joined.url, name |-> <<>>, k |-> 0]]
                            /\ pc' = [pc EXCEPT ![i] = "img_get"]
                            /\ UNCHANGED <<imgIdx, ret>>
    /\ UNCHANGED <<front, validation, inputs, pool, answer, soup, effsel, defaulted, images, batch, disk>>

\* download_image: requests.get(url, stream=True) ends, then
\* raise_for_status(), the filename, and open(filepath, 'wb'), which
\* truncates the file.  Any exception makes download_image return None.
ImgGet(i) ==
    /\ pc[i] = "img_get"
    /\ \E a \in AllAnswers, t \in 0..MaxTime, openable \in BOOLEAN :
          LET name == Filename(dl[i].url, t)
          IN  IF GetRaises(a) # "" \/ ~openable
              THEN /\ NextImg(i)
                   /\ UNCHANGED <<files, opened, overlapped>>
              ELSE /\ dl' = [dl EXCEPT ![i] = [url |-> dl[i].url, name |-> name, k |-> 1]]
                   /\ files' = [f \in DOMAIN files \cup {name} |-> IF f = name THEN <<>> ELSE files[f]]
                   /\ opened' = opened \cup
                         {[task |-> i, img |-> imgIdx[i], url |-> dl[i].url, name |-> name]}
                   /\ overlapped' =
                         (overlapped \/ \E j \in Tasks \ {i} : pc[j] = "img_write")
                   /\ pc' = [pc EXCEPT ![i] = "img_write"]
                   /\ UNCHANGED <<imgIdx, ret>>
    /\ UNCHANGED <<front, validation, inputs, pool, answer, soup, effsel, defaulted, data, images, batch,
                   dirExists, downloaded>>

\* download_image: the next chunk of iter_content is written at the file
\* position of this download, or reading or writing it raises and
\* download_image returns None; after the last chunk the file is closed,
\* filepath is returned and the image is appended to images.
ImgWrite(i) ==
    /\ pc[i] = "img_write"
    /\ IF dl[i].k > NumChunks
       THEN /\ images' = [images EXCEPT ![i] =
                            Append(images[i],
                                   [original_url |-> dl[i].url,
                                    saved_path |-> Filepath("pictures", dl[i].name)])]
            /\ downloaded' = downloaded \cup
                  {[task |-> i, img |-> imgIdx[i],
                    path |-> Filepath("pictures", dl[i].name)]}
            /\ NextImg(i)
            /\ files' = files
       ELSE \E raises \in BOOLEAN :
               IF raises
               THEN /\ NextImg(i)
                    /\ UNCHANGED <<images, files, downloaded>>
               ELSE /\ files' = [files EXCEPT ![dl[i].name] =
                                    WriteChunk(files[dl[i].name], dl[i].k,
                                               Content(dl[i].url)[dl[i].k])]
                    /\ dl' = [dl EXCEPT ![i].k = dl[i].k + 1]
                    /\ UNCHANGED <<images, imgIdx, pc, ret, downloaded>>
    /\ UNCHANGED <<front, validation, inputs, pool, answer, soup, effsel, defaulted, data, batch,
                   dirExists, opened, overlapped>>

Next ==
    \/ Call
    \/ Submit
    \/ \E i \in Tasks : Start(i)
    \/ \E i \in Tasks : Await(i)
    \/ Return
    \/ \E i \in Tasks : Sleep(i)
    \/ \E i \in Tasks : Get(i)
    \/ \E i \in Tasks : Images(i)
    \/ \E i \in Tasks : ImgGet(i)
    \/ \E i \in Tasks : ImgWrite(i)

Spec == Init /\ [][Next]_vars

\* Every network call eventually completes (the page GET, the image GET,
\* each chunk of an image body), and a thread that can run does run: the
\* main thread (Submit, Await, Return) and the workers (Start, Sleep,
\* Images).
Fairness ==
    /\ WF_vars(Submit)
    /\ WF_vars(Return)
    /\ \A i \in 1..(MaxUrls + 1) :
          /\ WF_vars(i \in Tasks /\ Start(i))
          /\ WF_vars(i \in Tasks /\ Await(i))
          /\ WF_vars(i \in Tasks /\ Sleep(i))
          /\ WF_vars(i \in Tasks /\ Get(i))
          /\ WF_vars(i \in Tasks /\ Images(i))
          /\ WF_vars(i \in Tasks /\ ImgGet(i))
          /\ WF_vars(i \in Tasks /\ ImgWrite(i))

\* The steps of a call of scrape_multiple_urls.
BatchNext ==
    \/ Submit
    \/ \E i \in Tasks : Start(i)
    \/ \E i \in Tasks : Await(i)
    \/ Return
    \/ \E i \in Tasks : Sleep(i)
    \/ \E i \in Tasks : Get(i)
    \/ \E i \in Tasks : Images(i)
    \/ \E i \in Tasks : ImgGet(i)
    \/ \E i \in Tasks : ImgWrite(i)

FairSpec == BatchInit /\ [][BatchNext]_vars /\ Fairness

(***************************************************************************)
(* The front end: __main__ (the command line) and main (the menu).  The    *)
(* web answers every page GET with 200 or 404.                             *)
(***************************************************************************)
\* The words of selectors, as the scraper reads them and as they are typed.
Spelling ==
    [title      |-> <<"t", "i", "t", "l", "e">>,
     paragraphs |-> <<"p", "a", "r", "a", "g", "r", "a", "p", "h", "s">>,
     links      |-> <<"l", "i", "n", "k", "s">>,
     h1         |-> <<"h", "1">>,
     li         |-> <<"l", "i">>,
     p          |-> <<"p">>,
     a          |-> <<"a">>]

\* The word the str t spells ("?" for none of them: a key web_scraper does
\* not read, a selector that matches nothing).
Word(t) ==
    IF \E w \in DOMAIN Spelling : Spelling[w] = t
    THEN CHOOSE w \in DOMAIN Spelling : Spelling[w] = t
    ELSE "?"

\* The selectors argument made of what process_selector_arg returned.
SelectorsOf(parsed) ==
    IF ~parsed.given THEN NoSelectors
    ELSE GivenSelectors(
            [k \in {Word(t) : t \in DOMAIN parsed.map} |->
                Word(parsed.map[CHOOSE t \in DOMAIN parsed.map : Word(t) = k])])

\* The URL a str is.
UrlOf(text) ==
    Url(CASE urlparse_scheme(text) = <<"h", "t", "t", "p">> -> "http"
          [] urlparse_scheme(text) = <<"h", "t", "t", "p", "s">> -> "https"
          [] OTHER -> "",
        urlparse_netloc(text), urlparse_path(text))

\* The URLs typed: two that validate_url accepts, then one without a scheme
\* and one under a long top-level domain.
UrlA == <<"h", "t", "t", "p", ":", "/", "/", "a", ".", "c", "o">>

UrlB == <<"h", "t", "t", "p", "s", ":", "/", "/", "b", ".", "c", "o", "/", "p">>

TypedUrls ==
    { UrlA, UrlB, <<"a", ".", "c", "o">>,
      <<"h", "t", "t", "p", ":", "/", "/", "a", ".", "c", "o", "m", "p", "a", "n", "y">> }

\* The arguments of --selector.
SelectorStrs ==
    { <<>>,
      Spelling.title \o <<"=">> \o Spelling.h1,
      Spelling.title \o <<"=">> \o Spelling.h1 \o <<",">> \o Spelling.paragraphs
          \o <<"=">> \o Spelling.li \o <<",">> \o Spelling.links \o <<"=">> \o Spelling.a,
      <<" ">> \o Spelling.title \o <<" ", "=", " ">> \o Spelling.h1 \o <<" ", ",">>
          \o Spelling.links \o <<"=">> \o Spelling.a \o <<" ">>,
      Spelling.title,
      Spelling.title \o <<"=">> \o Spelling.h1 \o <<"=">> \o Spelling.p,
      Spelling.title \o <<"=">> \o Spelling.h1 \o <<",">>,
      Spelling.title \o <<"=">> \o Spelling.h1 \o <<",">> \o Spelling.links,
      Spelling.title \o <<"=">> \o Spelling.h1 \o <<",">> \o Spelling.title
          \o <<"=">> \o Spelling.p,
      <<"=">>,
      <<" ">> }

\* The command lines: a URL (or none, which starts the menu) with or
\* without --picture; --urls with or without a URL; --selector.
CommandLines ==
    {Args(u, <<>>, pic, None) : u \in TypedUrls \cup {None, <<>>}, pic \in BOOLEAN}
        \cup {Args(u, us, FALSE, None) :
                u \in {None, UrlA}, us \in UNION {[1..m -> TypedUrls] : m \in 1..MaxCliUrls}}
        \cup {Args(UrlA, <<>>, FALSE, sel) : sel \in SelectorStrs}
        \cup {Args(None, <<UrlA, UrlB>>, pic, Spelling.title) : pic \in BOOLEAN}

FrontInit ==
    /\ args \in CommandLines
    /\ at = "start"
    /\ choice = ""
    /\ given = <<>>
    /\ cli_selectors = NoSelectors
    /\ exit_code = -1
    /\ saved = NotSaved
    /\ reads = 0
    /\ NoValidation
    /\ NoCall

\* web_scraper (m = "single") or scrape_multiple_urls (m = "batch") is
\* called with the URLs texts, selectors sel and download_images dli; the
\* pages served hold an image when images are downloaded.
Invoke(m, texts, sel, dli) ==
    /\ mode' = m
    /\ urls' = [k \in 1..Len(texts) |-> UrlOf(texts[k])]
    /\ selectors' = sel
    /\ download_images' = dli
    /\ web' = [k \in 1..Len(texts) |->
                 Server({Answer(200), Answer(404)}, IF dli THEN PlainDoc \o <<Img(ImageA)>> ELSE PlainDoc)]
    /\ futures' = 0
    /\ queue' = <<>>
    /\ threads' = 0
    /\ pc' = [k \in 1..Len(texts) |-> "new"]
    /\ ret' = [k \in 1..Len(texts) |-> NoResult]
    /\ answer' = [k \in 1..Len(texts) |-> NoAnswer]
    /\ soup' = [k \in 1..Len(texts) |-> <<>>]
    /\ effsel' = [k \in 1..Len(texts) |-> sel.map]
    /\ defaulted' = [k \in 1..Len(texts) |-> FALSE]
    /\ data' = [k \in 1..Len(texts) |-> NoData]
    /\ imgIdx' = [k \in 1..Len(texts) |-> 0]
    /\ images' = [k \in 1..Len(texts) |-> <<>>]
    /\ dl' = [k \in 1..Len(texts) |-> NoDownload]
    /\ consumed' = {}
    /\ results' = <<>>
    /\ returned' = FALSE
    /\ opened' = {}
    /\ overlapped' = FALSE
    /\ downloaded' = {}
    /\ UNCHANGED <<dirExists, files>>

\* No call is made in this step.
NoInvoke == UNCHANGED <<inputs, pool, pc, ret, locals, batch, disk>>

\* The call of the front end has returned (or raised).
ScrapeDone ==
    \/ mode = "single" /\ pc[1] \in {"returned", "raised"}
    \/ mode = "batch" /\ returned

\* if args.url or args.urls (argparse gives urls None or a list that is not
\* empty; the model writes None as the empty list)
IsCli(a) == Truthy(a.url) \/ a.urls # <<>>

\* A plausible bug: the URLs of --urls are not filtered.
ValidUrlsUnfiltered(us) == us

\* [url for url in args.urls if validate_url(url)]
ValidUrls(us) == SelectSeq(us, validate_url)

\* A plausible bug: the command line saves a Failure like a Success.
FailureExitsNever(d) == FALSE

\* elif 'error' in data: ... exit(1)
FailureExits(d) == "error" \in DOMAIN d

\* A plausible bug: the menu asks for the format after a Failure too.
ContinuesNever(d) == FALSE

\* elif 'error' in data: ... continue
Continues(d) == "error" \in DOMAIN d

\* exit(code), or the end of the script
Exit(code) ==
    /\ at' = "exited"
    /\ exit_code' = code

\* Lines 339-361: the menu is started, or the selectors are processed and
\* the valid URLs of --urls are scraped, or the URL if it is valid, or the
\* process exits 1.
CliStart ==
    /\ at = "start"
    /\ IF ~IsCli(args)
       THEN /\ at' = "menu"
            /\ NoInvoke
            /\ UNCHANGED <<given, cli_selectors, exit_code>>
       ELSE /\ cli_selectors' = process_selector_arg(args.selector)
            /\ IF args.urls # <<>>
               THEN IF ValidUrls(args.urls) # <<>>
                    THEN /\ given' = ValidUrls(args.urls)
                         /\ Invoke("batch", ValidUrls(args.urls),
                                   SelectorsOf(process_selector_arg(args.selector)),
                                   args.picture)
                         /\ at' = "scraping"
                         /\ exit_code' = exit_code
                    ELSE /\ Exit(1)
                         /\ NoInvoke
                         /\ given' = given
               ELSE IF validate_url(args.url)
                    THEN /\ given' = <<args.url>>
                         /\ Invoke("single", <<args.url>>,
                                   SelectorsOf(process_selector_arg(args.selector)),
                                   args.picture)
                         /\ at' = "scraping"
                         /\ exit_code' = exit_code
                    ELSE /\ Exit(1)
                         /\ NoInvoke
                         /\ given' = given
    /\ UNCHANGED <<args, choice, saved, reads, validation>>

\* Lines 364-377: a list is saved, a Failure exits 1, a Success is saved;
\* an exception out of web_scraper would end the process with a traceback.
CliFinish ==
    /\ at = "scraping"
    /\ IsCli(args)
    /\ ScrapeDone
    /\ IF mode = "batch"
       THEN /\ saved' = Saved(TRUE, results)
            /\ Exit(0)
       ELSE IF pc[1] = "raised" \/ FailureExits(ret[1])
       THEN /\ saved' = saved
            /\ Exit(1)
       ELSE /\ saved' = Saved(FALSE, <<ret[1]>>)
            /\ Exit(0)
    /\ NoInvoke
    /\ UNCHANGED <<args, choice, given, cli_selectors, reads, validation>>

\* choice = input(...): 5 ends the program, 1 to 4 go on to ask for a URL
\* (2 with urls = []), anything else is refused.
Menu ==
    /\ at = "menu"
    /\ reads < MaxReads
    /\ reads' = reads + 1
    /\ \E c \in {"1", "2", "3", "4", "5", "9"} :
          /\ choice' = c
          /\ IF c = "5"
             THEN /\ Exit(0)
                  /\ given' = given
             ELSE IF c \in {"1", "2", "3", "4"}
             THEN /\ at' = "url"
                  /\ given' = <<>>
                  /\ exit_code' = exit_code
             ELSE UNCHANGED <<at, given, exit_code>>
    /\ NoInvoke
    /\ UNCHANGED <<args, cli_selectors, saved, validation>>

\* url = input(...) in the loops of choices 1 to 4: an empty or invalid URL
\* is asked again (choice 2: skipped, like one already in the list, and the
\* empty string ends a list that is not empty); then choice 1 calls
\* web_scraper(url), choice 2 scrape_multiple_urls(urls), choices 3 and 4
\* ask on.
MenuUrl ==
    /\ at = "url"
    /\ reads < MaxReads
    /\ reads' = reads + 1
    /\ \E url \in TypedUrls \cup {<<>>} :
          IF choice = "2"
          THEN IF url = <<>> /\ given # <<>>
               THEN /\ Invoke("batch", given, NoSelectors, FALSE)
                    /\ at' = "scraping"
                    /\ given' = given
               ELSE /\ given' = IF url = <<>> \/ ~validate_url(url) \/ url \in {given[k] : k \in DOMAIN given}
                                THEN given
                                ELSE Append(given, url)
                    /\ at' = at
                    /\ NoInvoke
          ELSE IF url = <<>> \/ ~validate_url(url)
          THEN /\ NoInvoke
               /\ UNCHANGED <<at, given>>
          ELSE /\ given' = <<url>>
               /\ IF choice = "1"
                  THEN /\ Invoke("single", <<url>>, NoSelectors, FALSE)
                       /\ at' = "scraping"
                  ELSE /\ NoInvoke
                       /\ at' = IF choice = "3" THEN "selectors" ELSE "proxy"
    /\ UNCHANGED <<args, choice, cli_selectors, exit_code, saved, validation>>

\* Choice 3: the three selector prompts (each answered with nothing or with
\* a selector), selectors holding the answers that are not empty, and
\* web_scraper(url, selectors).
MenuSelectors ==
    /\ at = "selectors"
    /\ reads + Cardinality(SelectorKeys) <= MaxReads
    /\ reads' = reads + Cardinality(SelectorKeys)
    /\ \E selector \in [SelectorKeys -> {<<>>, Spelling.h1, Spelling.li}] :
          Invoke("single", given,
                 GivenSelectors([elem \in {k \in SelectorKeys : Truthy(selector[k])} |->
                                    Word(selector[elem])]),
                 FALSE)
    /\ at' = "scraping"
    /\ UNCHANGED <<args, choice, given, cli_selectors, exit_code, saved, validation>>

\* Choice 4: the proxy prompt, and web_scraper(url, proxy=proxy).
MenuProxy ==
    /\ at = "proxy"
    /\ reads < MaxReads
    /\ reads' = reads + 1
    /\ \E proxy_url \in TypedUrls \cup {<<>>} :
          Invoke("single", given, NoSelectors, FALSE)
    /\ at' = "scraping"
    /\ UNCHANGED <<args, choice, given, cli_selectors, exit_code, saved, validation>>

\* Lines 299-308: after a Failure the menu is shown again, after a list or
\* a Success the format is asked for.
MenuResult ==
    /\ at = "scraping"
    /\ ~IsCli(args)
    /\ ScrapeDone
    /\ at' = IF mode = "single" /\ Continues(ret[1]) THEN "menu" ELSE "format"
    /\ NoInvoke
    /\ UNCHANGED <<args, choice, given, cli_selectors, exit_code, saved, reads, validation>>

\* format_choice = input(...) and save_data(data, ...).
MenuFormat ==
    /\ at = "format"
    /\ reads < MaxReads
    /\ reads' = reads + 1
    /\ \E format_choice \in {"json", "csv", ""} :
          saved' = IF mode = "batch" THEN Saved(TRUE, results) ELSE Saved(FALSE, <<ret[1]>>)
    /\ at' = "menu"
    /\ NoInvoke
    /\ UNCHANGED <<args, choice, given, cli_selectors, exit_code, validation>>

FrontNext ==
    \/ CliStart
    \/ CliFinish
    \/ Menu
    \/ MenuUrl
    \/ MenuSelectors
    \/ MenuProxy
    \/ MenuResult
    \/ MenuFormat
    \/ Next

FrontSpec == FrontInit /\ [][FrontNext]_vars

(***************************************************************************)
(* validate_url called on its own, on strings of these classes: schemes    *)
(* that are http(s) or not; hosts that are DNS names, localhost or IPv4    *)
(* addresses, or neither; ports and what follows them, well-formed or not. *)
(***************************************************************************)
HttpSchemes == {<<"h", "t", "t", "p">>, <<"h", "t", "t", "p", "s">>, <<"H", "T", "T", "P">>}

OtherSchemes == {<<"f", "t", "p">>}

\* DNS names (one with a top-level domain of seven letters), localhost and
\* dotted-quad IPv4 addresses.
DnsHosts ==
    { <<"a", ".", "c", "o">>,
      <<"w", "w", "w", ".", "a", "-", "b", ".", "o", "r", "g">>,
      <<"x", ".", "m", "u", "s", "e", "u", "m">>,
      <<"a", ".", "c", "o", "m", "p", "a", "n", "y">> }

IpHosts == {<<"1", ".", "2", ".", "3", ".", "4">>, <<"1", "9", "2", ".", "1", "6", "8", ".", "0", ".", "1">>}

GoodHosts == DnsHosts \cup {<<"l", "o", "c", "a", "l", "h", "o", "s", "t">>} \cup IpHosts

\* Hosts that are no DNS name and no address.
OddHosts == {<<"-", "a", ".", "c", "o">>, <<"1", ".", "2", ".", "3">>}

GoodPorts == {<<>>, <<":", "8", "0">>, <<":", "8", "0", "8", "0">>}

OddPorts == {<<":">>, <<":", "x">>}

\* Nothing, a path, a query, a path with a query.
GoodTails ==
    { <<>>, <<"/">>, <<"/", "p">>, <<"/", "p", "/", "q", ".", "h">>,
      <<"?", "q", "=", "1">>, <<"/", "p", "?", "q", "=", "1">> }

\* A path with a space, a fragment.
OddTails == {<<"/", "a", " ", "b">>, <<"#", "f">>}

ValidateInputs ==
    {NoStr} \cup
        { Parts(x[1], x[2], x[3], x[4]) :
            x \in (HttpSchemes \cup OtherSchemes \cup {<<>>})
                    \X (GoodHosts \cup OddHosts \cup {<<>>})
                    \X (GoodPorts \cup OddPorts)
                    \X (GoodTails \cup OddTails) }

ValidateInit ==
    /\ NoFrontEnd
    /\ NoCall
    /\ checked \in ValidateInputs
    /\ valid = NotReturned

\* validate_url(url) is called and returns.
Validate ==
    /\ ~valid.returned
    /\ valid' = Returned(validate_url(UrlText(checked)))
    /\ UNCHANGED <<front, checked, inputs, pool, pc, ret, locals, batch, disk>>

ValidateSpec == ValidateInit /\ [][Validate]_vars

(***************************************************************************)
(* Vocabulary of the properties.                                           *)
(***************************************************************************)
\* The tasks whose web_scraper call has returned a Success, a Failure.
Succeeded == {i \in Tasks : pc[i] = "returned" /\ IsSuccess(ret[i])}

Failed == {i \in Tasks : pc[i] = "returned" /\ IsFailure(ret[i])}

\* The batch call has returned.
BatchReturned == mode = "batch" /\ returned

\* The positions of the records of urls[i] in results.
PositionsOf(i) == {k \in 1..Len(results) : results[k].url = urls[i]}

\* The kind of a Failure.
ErrorKind(r) == r.error[1]

\* The fields of a Success.
ContentFields == {"url", "timestamp", "title", "paragraphs", "links", "images"}

\* Task i is past its page GET.
PastGet(i) == pc[i] \in {"images", "img_get", "img_write", "returned", "raised"}

\* The page GET of task i met a transport-level error, or was answered
\* with a status that is not 2xx, or with a 4xx or 5xx status.
TransportError(i) == PastGet(i) /\ answer[i].err

Non2xx(i) == PastGet(i) /\ ~answer[i].err /\ answer[i].status \notin 200..299

Status4xx5xx(i) == PastGet(i) /\ ~answer[i].err /\ answer[i].status \in 400..599

\* Task i has extracted nothing and downloaded nothing.
NothingExtracted(i) ==
    /\ data[i] = NoData
    /\ soup[i] = <<>>
    /\ imgIdx[i] = 0
    /\ images[i] = <<>>
    /\ \A o \in opened : o.task # i

\* The image entries of the records in results, each with its file's name.
ReportedImages ==
    UNION { { [entry |-> results[k].images[m], name |-> Tail(results[k].images[m].saved_path)]
              : m \in 1..Len(results[k].images) }
            : k \in {j \in 1..Len(results) : "images" \in DOMAIN results[j]} }

\* The file at the saved_path of a reported image holds the whole body of
\* the image at its original_url.
FileComplete(e) ==
    /\ e.name \in DOMAIN files
    /\ files[e.name] = Content(e.entry.original_url)

(***************************************************************************)
(* C1.  When scrape_multiple_urls has returned for a batch of N URLs of    *)
(* which K calls ended in a Failure, results holds exactly N - K records,  *)
(* all of them Successes, exactly one for each successful URL (the value   *)
(* its call returned); every call has returned, none was aborted.          *)
(***************************************************************************)
C1_BatchKeepsExactlySuccesses ==
    BatchReturned =>
        /\ \A i \in Tasks : pc[i] = "returned"
        /\ Len(results) = Len(urls) - Cardinality(Failed)
        /\ \A k \in 1..Len(results) : IsSuccess(results[k])
        /\ \A i \in Succeeded :
              /\ Cardinality(PositionsOf(i)) = 1
              /\ \A k \in PositionsOf(i) : results[k] = ret[i]

\* A batch has returned in which some URLs failed and several succeeded.
C1_Witness ==
    /\ BatchReturned
    /\ Cardinality(Failed) >= 2
    /\ Len(results) >= 2
    /\ Len(results) = Len(urls) - Cardinality(Failed)

(***************************************************************************)
(* C2.  When scrape_multiple_urls has returned, the records of any two     *)
(* successful URLs stand in results in the order of the URLs in the        *)
(* input, whatever the order in which the calls completed.                 *)
(***************************************************************************)
C2_SubmissionOrder ==
    BatchReturned =>
        \A i, j \in Succeeded :
            i < j => \E ki \in PositionsOf(i), kj \in PositionsOf(j) : ki < kj

\* The call of a later URL has completed before that of an earlier one, and
\* the loop has taken the records of the URLs before both in order.
C2_Witness ==
    /\ mode = "batch"
    /\ Len(urls) >= 4
    /\ consumed = {1, 2}
    /\ Len(results) = 2
    /\ PositionsOf(1) = {1}
    /\ PositionsOf(2) = {2}
    /\ pc[3] \in {"sleep", "get"}
    /\ 4 \in Succeeded

(***************************************************************************)
(* C3.  At no moment are more than 5 web_scraper calls of a batch under    *)
(* way, nor more than 5 requests in flight, whatever the batch size.       *)
(***************************************************************************)
C3_AtMostFiveInFlight ==
    /\ Cardinality(Running) <= 5
    /\ Cardinality(Fetching) <= 5

\* A batch larger than the pool: 5 page GETs in flight, a URL waiting.
C3_Witness ==
    /\ Len(urls) > 5
    /\ Cardinality(Fetching) = 5
    /\ queue # <<>>

(***************************************************************************)
(* C4.  No exception leaves web_scraper, and what it returns is either a   *)
(* Success (url, timestamp, title, paragraphs, links, no error) or a       *)
(* Failure (error and no content field), never both and never neither.     *)
(***************************************************************************)
C4_SuccessOrFailure ==
    \A i \in Tasks :
        /\ pc[i] # "raised"
        /\ pc[i] = "returned" =>
              \/ /\ IsSuccess(ret[i])
                 /\ DOMAIN ret[i] \subseteq ContentFields
              \/ /\ IsFailure(ret[i])
                 /\ DOMAIN ret[i] \cap ContentFields = {}
                 /\ ~IsSuccess(ret[i])

\* A call whose page was fetched and extracted has returned a Failure for
\* an exception raised later, in the image loop.
C4_Witness ==
    \E i \in Tasks :
        /\ pc[i] = "returned"
        /\ IsFailure(ret[i])
        /\ imgIdx[i] >= 1

(***************************************************************************)
(* C5, as claimed.  A transport-level error or a non-2xx answer to the     *)
(* page GET yields a 'Baglanti hatasi' Failure with nothing extracted and  *)
(* nothing downloaded; every other Failure is a 'Beklenmeyen hata'.        *)
(***************************************************************************)
C5_Non2xxIsConnectionError ==
    \A i \in Tasks :
        pc[i] = "returned" =>
            /\ (TransportError(i) \/ Non2xx(i)) =>
                  /\ IsFailure(ret[i])
                  /\ ErrorKind(ret[i]) = "Baglanti hatasi"
                  /\ NothingExtracted(i)
            /\ (IsFailure(ret[i]) /\ ~(TransportError(i) \/ Non2xx(i))) =>
                  ErrorKind(ret[i]) = "Beklenmeyen hata"

(***************************************************************************)
(* C5, amended.  A transport-level error or a 4xx or 5xx answer to the     *)
(* page GET yields a 'Baglanti hatasi' Failure with nothing extracted and  *)
(* nothing downloaded; every other Failure is a 'Beklenmeyen hata'; no     *)
(* Failure has another kind.                                               *)
(***************************************************************************)
C5_FailureKinds ==
    \A i \in Tasks :
        pc[i] = "returned" =>
            /\ (TransportError(i) \/ Status4xx5xx(i)) =>
                  /\ IsFailure(ret[i])
                  /\ ErrorKind(ret[i]) = "Baglanti hatasi"
                  /\ NothingExtracted(i)
            /\ (IsFailure(ret[i]) /\ ~(TransportError(i) \/ Status4xx5xx(i))) =>
                  ErrorKind(ret[i]) = "Beklenmeyen hata"
            /\ IsFailure(ret[i]) =>
                  ErrorKind(ret[i]) \in {"Baglanti hatasi", "Beklenmeyen hata"}

\* One call has returned the Failure of a 503 answer.
C5_Witness ==
    \E i \in Tasks :
        /\ pc[i] = "returned"
        /\ answer[i] = Answer(503)
        /\ ret[i] = ConnectionFailure("HTTPError")

(***************************************************************************)
(* C6.  Once the image loop of a call has started (download_images is      *)
(* set, the page was fetched and extracted), the call returns a Success    *)
(* whatever happens to an image, and the loop has gone through every img.  *)
(***************************************************************************)
C6_ImageFailuresAbsorbed ==
    \A i \in Tasks :
        (pc[i] = "returned" /\ imgIdx[i] >= 1) =>
            /\ IsSuccess(ret[i])
            /\ imgIdx[i] = Len(find_all_img(soup[i])) + 1

(***************************************************************************)
(* C7, as claimed.  When a batch whose downloads were all of different     *)
(* image URLs has returned, the file at every reported saved_path holds    *)
(* the whole body of the image at that entry's original_url.               *)
(***************************************************************************)
C7_DifferentUrlsNeverClobber ==
    (/\ BatchReturned
     /\ \A o1, o2 \in opened : o1 # o2 => o1.url # o2.url)
        => \A e \in ReportedImages : FileComplete(e)

(***************************************************************************)
(* C7, amended.  No download crashes its task, and when a batch has        *)
(* returned, the file at every reported saved_path that no other download  *)
(* of the batch opened (so: whose filename no other download derived)      *)
(* holds the whole body of the image at that entry's original_url.         *)
(***************************************************************************)
C7_DistinctFilenamesNeverClobber ==
    /\ \A i \in Tasks : pc[i] # "raised"
    /\ BatchReturned =>
          \A e \in ReportedImages :
              Cardinality({o \in opened : o.name = e.name}) = 1 => FileComplete(e)

\* A batch of two tasks has returned; their downloads ran at the same time,
\* into two files, and both are reported.
C7_Witness ==
    /\ BatchReturned
    /\ overlapped
    /\ Cardinality(ReportedImages) = 2
    /\ \A e \in ReportedImages :
          /\ Cardinality({o \in opened : o.name = e.name}) = 1
          /\ FileComplete(e)

(***************************************************************************)
(* C8.  When the selectors supplied lack a key, the call does not fail for *)
(* it: once the page is fetched, data is extracted with the supplied       *)
(* selectors completed, key by key, from the defaults.                     *)
(***************************************************************************)
C8_MissingKeysFallBack ==
    \A i \in Tasks :
        (/\ pc[i] = "returned"
         /\ selectors.given
         /\ ~(SelectorKeys \subseteq DOMAIN selectors.map)
         /\ ~TransportError(i)
         /\ ~Status4xx5xx(i))
            => /\ ~(IsFailure(ret[i]) /\ ret[i].error[2] = "KeyError")
               /\ data[i] = Data(urls[i], web[i].doc, EffectiveSelectorsMerged(selectors))

(***************************************************************************)
(* C9, as claimed.  The default selectors are assigned if and only if no   *)
(* selectors were supplied at all; selectors that were supplied are used   *)
(* as they are.                                                            *)
(***************************************************************************)
C9_DefaultsOnlyWhenNotSupplied ==
    \A i \in Tasks :
        (PastGet(i) /\ ~TransportError(i) /\ ~Status4xx5xx(i)) =>
            /\ defaulted[i] <=> ~selectors.given
            /\ selectors.given => effsel[i] = selectors.map

(***************************************************************************)
(* C9, amended.  The default selectors are assigned if and only if no      *)
(* selectors were supplied or the dict supplied is empty; a dict that      *)
(* holds a key is used as it is, no missing key filled in.                 *)
(***************************************************************************)
C9_DefaultsOnlyWhenNoneOrEmpty ==
    \A i \in Tasks :
        (PastGet(i) /\ ~TransportError(i) /\ ~Status4xx5xx(i)) =>
            /\ defaulted[i] <=> (~selectors.given \/ DOMAIN selectors.map = {})
            /\ defaulted[i] => effsel[i] = DefaultSelectors
            /\ ~defaulted[i] =>
                  /\ effsel[i] = selectors.map
                  /\ DOMAIN effsel[i] = DOMAIN selectors.map

\* A call given selectors that hold a key and lack another has returned.
C9_Witness ==
    \E i \in Tasks :
        /\ pc[i] = "returned"
        /\ PastGet(i) /\ ~TransportError(i) /\ ~Status4xx5xx(i)
        /\ selectors.given
        /\ DOMAIN selectors.map # {}
        /\ ~(SelectorKeys \subseteq DOMAIN selectors.map)
        /\ ~defaulted[i]

(***************************************************************************)
(* C10.  The links of a Success are, in document order, the first          *)
(* min(10, m) of the m elements that match the links selector and carry    *)
(* an href.                                                                *)
(***************************************************************************)
C10_FirstTenWithHref ==
    \A i \in Succeeded :
        LET withHref == SelectSeq(select(soup[i], effsel[i].links),
                                  LAMBDA a : Truthy(a.href))
            firstTen == Take(withHref, 10)
        IN  ret[i].links =
                [k \in 1..Len(firstTen) |->
                    [text |-> strip(firstTen[k].text), href |-> firstTen[k].href]]

(***************************************************************************)
(* C11.  The title of every Success is a string, never null: the text of   *)
(* the first element matching the title selector when there is one, else   *)
(* the placeholder, whatever the content of the matched element.           *)
(***************************************************************************)
C11_TitleIsString ==
    \A i \in Succeeded :
        LET matched == select(soup[i], effsel[i].title)
        IN  /\ ret[i].title # None
            /\ ret[i].title = IF matched # <<>> THEN matched[1].text ELSE TitleNotFound

(***************************************************************************)
(* C12.  With download_images set, the images of a Success are, in         *)
(* document order, exactly one {original_url, saved_path} entry for each   *)
(* <img> whose src is non-empty and whose download returned a saved path;  *)
(* no image GET is ever sent for an <img> whose src is empty or absent.    *)
(* Without download_images no image is fetched and no record has an        *)
(* 'images' field.                                                         *)
(***************************************************************************)
\* The k-th <img> of task i carries a src that is not the empty string.
HasSrc(i, k) == find_all_img(soup[i])[k].src.kind \notin {"absent", "empty"}

\* The elements of the set S of numbers, in increasing order.
Ascending(S) ==
    [n \in 1..Cardinality(S) |-> CHOOSE k \in S : Cardinality({m \in S : m < k}) = n - 1]

\* The <img> elements of task i (by position) whose src is non-empty and
\* whose download returned a saved path.
SavedImgs(i) ==
    {k \in 1..Len(find_all_img(soup[i])) :
        /\ HasSrc(i, k)
        /\ \E d \in downloaded : d.task = i /\ d.img = k}

\* The entry of the k-th <img> of task i.
ImageEntry(i, k) ==
    [original_url |-> urljoin(urls[i], find_all_img(soup[i])[k].src).url,
     saved_path   |-> (CHOOSE d \in downloaded : d.task = i /\ d.img = k).path]

C12_ImagesAreTheSavedOnes ==
    \A i \in Tasks :
        /\ pc[i] \in {"img_get", "img_write"} =>
              /\ download_images
              /\ HasSrc(i, imgIdx[i])
        /\ ~download_images =>
              /\ pc[i] \notin {"images", "img_get", "img_write"}
              /\ opened = {}
              /\ pc[i] = "returned" => "images" \notin DOMAIN ret[i]
        /\ (download_images /\ i \in Succeeded) =>
              /\ "images" \in DOMAIN ret[i]
              /\ ret[i].images =
                    [n \in 1..Cardinality(SavedImgs(i)) |->
                        ImageEntry(i, Ascending(SavedImgs(i))[n])]

\* A Success reports one image of a page of two: the other <img> has no
\* src, or its download failed.
C12_Witness ==
    \E i \in Succeeded :
        /\ download_images
        /\ Len(find_all_img(soup[i])) = 2
        /\ Len(ret[i].images) = 1
        /\ \E k \in 1..2 : ~HasSrc(i, k)

(***************************************************************************)
(* C18, as claimed.  The timestamp of a Success is taken after the page    *)
(* was fetched and parsed and after the title, the paragraphs and the      *)
(* links were extracted.                                                   *)
(***************************************************************************)
C18_TimestampAfterExtraction ==
    \A i \in Succeeded :
        {"get", "parse", "title", "paragraphs", "links"} \subseteq ret[i].timestamp

(***************************************************************************)
(* C18, amended.  The timestamp of a Success is taken after the page was   *)
(* fetched and parsed and before the title, the paragraphs and the links   *)
(* are extracted.                                                          *)
(***************************************************************************)
C18_TimestampBeforeExtraction ==
    \A i \in Succeeded :
        /\ {"sleep", "get", "raise_for_status", "parse"} \subseteq ret[i].timestamp
        /\ ret[i].timestamp \cap {"title", "paragraphs", "links"} = {}

\* A Success whose title, paragraphs and links were all found in the page.
C18_Witness ==
    \E i \in Succeeded :
        /\ ret[i].title # TitleNotFound
        /\ ret[i].title # None
        /\ ret[i].paragraphs # <<>>
        /\ ret[i].links # <<>>
        /\ "get" \in ret[i].timestamp

(***************************************************************************)
(* C17.  The page GET of a call is sent only when the call's own           *)
(* time.sleep(1) is over; the delay is per call: a sleeping call can       *)
(* always end its sleep and send its GET, and a GET in flight can always   *)
(* be answered, whatever the other calls are doing, so that 5 page GETs    *)
(* can be in flight at the same moment.                                    *)
(***************************************************************************)
C17_OwnDelayThenGet ==
    /\ [](\A i \in Tasks :
            /\ pc[i] = "sleep" => ENABLED Sleep(i)
            /\ pc[i] = "get" => ENABLED Get(i))
    /\ [][\A i \in Tasks :
            (pc[i] # "get" /\ pc'[i] = "get") => pc[i] = "sleep"]_vars

\* The five workers of a batch have slept side by side and their five page
\* GETs are in flight together, none answered yet.
C17_Witness ==
    /\ mode = "batch"
    /\ Cardinality({i \in Tasks : pc[i] = "get"}) = 5
    /\ \A i \in Tasks : pc[i] \notin {"returned", "raised"}

(***************************************************************************)
(* C16.  scrape_multiple_urls returns only after every submitted call has  *)
(* finished.  If every network call eventually completes, every batch      *)
(* eventually returns, each URL having been executed exactly once: a call  *)
(* starts once, from the queue, and a finished call stays finished.  A     *)
(* call leaves its page GET only by the GET being answered (no timeout,    *)
(* no cancellation), so a batch with a GET that is never answered never    *)
(* returns.                                                                *)
(***************************************************************************)
C16_BatchReturnsWhenCallsComplete ==
    /\ [](BatchReturned => \A i \in Tasks : pc[i] = "returned")
    /\ (mode = "batch") ~> BatchReturned
    /\ [][mode = "batch" =>
            \A i \in Tasks :
                /\ (pc[i] # "sleep" /\ pc'[i] = "sleep") => pc[i] = "queued"
                /\ pc[i] = "returned" => pc'[i] = "returned"
                /\ (pc[i] = "get" /\ pc'[i] # "get") =>
                      /\ answer[i] = NoAnswer
                      /\ answer'[i] \in web[i].answers]_vars

\* A batch larger than the pool has returned, every call finished.
C16_Witness ==
    /\ BatchReturned
    /\ Len(urls) > 5
    /\ \A i \in Tasks : pc[i] = "returned"

(***************************************************************************)
(* C15.  validate_url returns a boolean for every input; it returns true   *)
(* for every well-formed absolute http or https URL (an http(s) scheme, a  *)
(* host that is a DNS name, localhost or a dotted-quad IPv4 address, an    *)
(* optional port, an optional path or query), and false for every string   *)
(* that is empty, has no scheme, has no host, or has another scheme.       *)
(***************************************************************************)
WellFormedHttpUrl(c) ==
    /\ c.str
    /\ c.scheme \in HttpSchemes
    /\ c.host \in GoodHosts
    /\ c.port \in GoodPorts
    /\ c.tail \in GoodTails

MustBeRejected(c) ==
    /\ c.str
    /\ \/ UrlText(c) = <<>>
       \/ c.scheme = <<>>
       \/ c.scheme \in OtherSchemes
       \/ c.host = <<>>

C15_ValidateUrl ==
    valid.returned =>
        /\ valid.value \in BOOLEAN
        /\ WellFormedHttpUrl(checked) => valid.value
        /\ MustBeRejected(checked) => ~valid.value

(***************************************************************************)
(* C13.  A command-line run ends with a non-zero exit code exactly when no *)
(* valid URL was supplied (the URL is invalid, or no entry of --urls is    *)
(* valid) or the single-URL scrape returned a Failure.  With --urls and a  *)
(* valid entry it ends with exit code 0, however many URLs failed, after   *)
(* save_data was called with the list of the Successes (possibly empty).   *)
(***************************************************************************)
\* The command line supplies no valid URL.
NoValidUrl ==
    IF args.urls # <<>>
    THEN \A k \in 1..Len(args.urls) : ~validate_url(args.urls[k])
    ELSE ~validate_url(args.url)

C13_ExitCodes ==
    (IsCli(args) /\ at = "exited") =>
        /\ exit_code \in {0, 1}
        /\ exit_code # 0 <=>
              \/ NoValidUrl
              \/ args.urls = <<>> /\ mode = "single" /\ IsFailure(ret[1])
        /\ (args.urls # <<>> /\ ~NoValidUrl) =>
              /\ exit_code = 0
              /\ mode = "batch"
              /\ saved = Saved(TRUE, results)
              /\ Len(results) = Cardinality(Succeeded)

\* A run with two valid URLs in --urls has ended with exit code 0 and an
\* empty list saved: both URLs failed.
C13_Witness ==
    /\ IsCli(args)
    /\ at = "exited"
    /\ Len(urls) = 2
    /\ Cardinality(Failed) = 2
    /\ exit_code = 0
    /\ saved = Saved(TRUE, <<>>)

(***************************************************************************)
(* C14.  While a call of web_scraper or scrape_multiple_urls made by the   *)
(* command line or by the menu (choices 1 to 4) is under way, its URLs are *)
(* the URLs the front end collected, each of which validate_url accepts;   *)
(* no page is fetched for any other URL.                                   *)
(***************************************************************************)
C14_OnlyValidUrlsScraped ==
    /\ at = "scraping" =>
          /\ Len(urls) = Len(given)
          /\ Len(given) >= 1
          /\ \A k \in 1..Len(given) :
                /\ validate_url(given[k])
                /\ urls[k] = UrlOf(given[k])
    /\ \A i \in Tasks : pc[i] \in {"queued", "sleep", "get"} => at = "scraping"
    /\ at \in {"start", "menu", "url"} => \A i \in Tasks : pc[i] \in {"returned", "raised"}

\* The command line's --urls held an invalid URL, left out of the batch
\* whose page GETs are in flight.
C14_Witness ==
    /\ at = "scraping"
    /\ IsCli(args)
    /\ Len(args.urls) > Len(urls)
    /\ \E i \in Tasks : pc[i] = "get"

(***************************************************************************)
(* C19.  save_data is never called with a Failure: whatever it was last    *)
(* called with, a record or a list, holds Success records only.            *)
(***************************************************************************)
C19_OnlySuccessesSaved ==
    saved.called =>
        \A k \in 1..Len(saved.records) :
            /\ IsSuccess(saved.records[k])
            /\ ~IsFailure(saved.records[k])

\* The menu has saved a Success, then a later scrape has failed and the
\* menu is shown again, nothing more saved.
C19_Witness ==
    /\ at = "menu"
    /\ mode = "single"
    /\ IsFailure(ret[1])
    /\ saved.called
    /\ ~saved.list
    /\ saved.records[1].url # urls[1]

(***************************************************************************)
(* C20.  process_selector_arg raises nothing.  For no --selector, an empty *)
(* one, or one with a comma-separated item that does not hold exactly one  *)
(* "=", it returns None, and the scrape runs with the default selectors    *)
(* (a fetched page is extracted, no error for the selectors).  Otherwise   *)
(* it returns the dict of the trimmed keys and values (the last value of a *)
(* key given twice), no other key, and that dict is what the scrape gets.  *)
(***************************************************************************)
\* The number of "=" in the str item.
Equals(item) == Cardinality({j \in 1..Len(item) : item[j] = "="})

\* --selector is absent, empty, or holds an item without exactly one "=".
BadSelectorArg ==
    \/ args.selector = None
    \/ args.selector = <<>>
    \/ \E k \in 1..Len(split(args.selector, ",")) :
          Equals(split(args.selector, ",")[k]) # 1

\* The key and the value of the k-th item of --selector, trimmed.
KeyOf(k) == strip(split(split(args.selector, ",")[k], "=")[1])

ValueOf(k) == strip(split(split(args.selector, ",")[k], "=")[2])

C20_SelectorArg ==
    (IsCli(args) /\ at \in {"scraping", "exited"}) =>
        IF BadSelectorArg
        THEN /\ cli_selectors = NoSelectors
             /\ mode # "none" =>
                   /\ selectors = NoSelectors
                   /\ \A i \in Tasks :
                         (PastGet(i) /\ ~TransportError(i) /\ ~Status4xx5xx(i)) =>
                             /\ effsel[i] = DefaultSelectors
                             /\ \A f \in DOMAIN Data(urls[i], web[i].doc, DefaultSelectors) :
                                   /\ f \in DOMAIN data[i]
                                   /\ data[i][f] = Data(urls[i], web[i].doc, DefaultSelectors)[f]
        ELSE /\ cli_selectors.given
             /\ DOMAIN cli_selectors.map =
                   {KeyOf(k) : k \in 1..Len(split(args.selector, ","))}
             /\ \A k \in 1..Len(split(args.selector, ",")) :
                   (\A m \in (k + 1)..Len(split(args.selector, ",")) : KeyOf(m) # KeyOf(k))
                       => cli_selectors.map[KeyOf(k)] = ValueOf(k)
             /\ mode # "none" =>
                   /\ selectors.given
                   /\ DOMAIN selectors.map = {Word(t) : t \in DOMAIN cli_selectors.map}
                   /\ \A t \in DOMAIN cli_selectors.map :
                         selectors.map[Word(t)] = Word(cli_selectors.map[t])

\* A run whose --selector holds an item without "=" has fetched its page
\* and returned a Success extracted with the default selectors.
C20_Witness ==
    /\ IsCli(args)
    /\ Truthy(args.selector)
    /\ BadSelectorArg
    /\ at = "exited"
    /\ mode = "single"
    /\ IsSuccess(ret[1])
    /\ effsel[1] = DefaultSelectors
    /\ exit_code = 0

====
